---------------------------- MODULE Spec2Model ----------------------------
(***************************************************************************)
(* The N-dimensional x-in-a-row engine of main_game.py: class Board (the   *)
(* grid, the turn, the move histories, the scan directions, win and draw   *)
(* evaluation), class Move, and the pygame driver around them: the squares *)
(* of the window and the event loop's handling of the mouse.               *)
(*                                                                         *)
(* A coordinate is a tuple with one integer per axis.  A call's outcome is *)
(* kept in ret: the operation, the exception it raised (NoExc when it      *)
(* returned) and the value it returned.  Python's None is the empty tuple  *)
(* and a returned int v is <<v>> where a function returns Optional[int].   *)
(***************************************************************************)
EXTENDS Integers, Sequences, FiniteSets, TLC

VARIABLES dimensions, x_in_a_row, board, directions, move_count, moves, x, o,
          turn, ret, other, board_squares, ok, handling

engine == <<dimensions, x_in_a_row, board, directions, move_count, moves, x, o, turn>>

\* What lies outside the engine in use: another Board (a copy, or the Board
\* a copy was made of), and the driver's squares, its ok flag and the event
\* its loop is handling.
outside == <<other, board_squares, ok, handling>>

vars == <<dimensions, x_in_a_row, board, directions, move_count, moves, x, o, turn, ret,
          other, board_squares, ok, handling>>

(***************************************************************************)
(* Marks.                                                                  *)
(***************************************************************************)
EMPTY == 0
X == 1
O == 2

NoExc == "ok"
None == <<>>
Some(v) == <<v>>

\* One Board and no driver: board_squares = None and ok = False are the
\* module's globals before get_size has run.
Alone ==
    /\ other = None
    /\ board_squares = None
    /\ ok = FALSE
    /\ handling = None

(***************************************************************************)
(* Bounds of the model.                                                    *)
(***************************************************************************)
\* The largest axis size.
MaxSide == 3
\* The largest x_in_a_row.
MaxRun == 3
\* The largest number of cells of a board played by pushes.
MaxGameCells == 4
\* The largest number of cells of a board given with arbitrary content.
MaxBoardCells == 9

\* Boards given with arbitrary content have one, two or three axes; boards
\* played by pushes, whose histories are part of the state, one or two.
AxisCounts == 1..3
GameAxisCounts == 1..2

RECURSIVE ProductFrom(_, _)
ProductFrom(dims, i) ==
    IF i > Len(dims) THEN 1 ELSE dims[i] * ProductFrom(dims, i + 1)

\* The shapes of at most maxCells cells; on a board of several axes every
\* axis has at least minSide cells.
Shapes(axisCounts, minSide, maxCells) ==
    {d \in UNION {[1..n -> 1..MaxSide] : n \in axisCounts} :
        /\ ProductFrom(d, 1) <= maxCells
        /\ Len(d) > 1 => \A i \in 1..Len(d) : d[i] >= minSide}

GameShapes == Shapes(GameAxisCounts, 1, MaxGameCells)
BoardShapes == Shapes(AxisCounts, 2, MaxBoardCells)

\* The run lengths: positive, as the engine's callers give them.
RunLengths == 1..MaxRun

\* The shapes and run lengths a caller may hand to Board(...): the sizes of
\* an axis and the run length may be zero or negative.
NewShapes ==
    {d \in UNION {[1..n -> -1..MaxSide] : n \in GameAxisCounts} :
        ProductFrom(d, 1) <= MaxGameCells}

NewRunLengths == -1..MaxRun

\* The coordinate tuples a Move is built from: up to MaxComponents
\* components, each from -1 to MaxCoordinate.
MaxComponents == 3

MaxCoordinate == 11

CoordinateTuples == UNION {[1..n -> -1..MaxCoordinate] : n \in 0..MaxComponents}

(***************************************************************************)
(* numpy indexing of an array of shape dims by a full tuple of integers:   *)
(* an index i on an axis of size n is taken when -n <= i < n, a negative   *)
(* one counting from the end; any other index raises IndexError.           *)
(***************************************************************************)
IndexOk(dims, pos) ==
    \A i \in 1..Len(dims) : -dims[i] <= pos[i] /\ pos[i] < dims[i]

NpIndex(dims, pos) ==
    [i \in 1..Len(dims) |-> IF pos[i] < 0 THEN pos[i] + dims[i] ELSE pos[i]]

\* The cells of an array of shape dims: the tuples of its first n axes.
RECURSIVE CellsUpTo(_, _)
CellsUpTo(dims, n) ==
    IF n = 0 THEN {<<>>}
    ELSE {Append(t, v) : t \in CellsUpTo(dims, n - 1), v \in 0..(dims[n] - 1)}

Cells(dims) == CellsUpTo(dims, Len(dims))

\* The coordinates a caller passes: every cell, and every cell with one
\* component replaced by the negative index -1 or by an index one past
\* either end of numpy's range on that axis.
OffAxis(side) == {-1, side, -(side + 1)}

ArgCoords(dims) ==
    Cells(dims) \cup
    UNION {{[c EXCEPT ![i] = v] : c \in Cells(dims), v \in OffAxis(dims[i])} :
              i \in 1..Len(dims)}

\* Board.create_board
create_board(dims) == [c \in Cells(dims) |-> EMPTY]

(***************************************************************************)
(* class Move: str_move is "-".join(map(str, coordinate_move)), a string   *)
(* kept as the sequence of its characters.                                 *)
(***************************************************************************)
Digits == <<"0", "1", "2", "3", "4", "5", "6", "7", "8", "9">>

RECURSIVE str(_)
str(n) ==
    IF n < 0 THEN <<"-">> \o str(-n)
    ELSE IF n < 10 THEN <<Digits[n + 1]>>
    ELSE str(n \div 10) \o <<Digits[(n % 10) + 1]>>

RECURSIVE join(_, _)
join(sep, parts) ==
    IF Len(parts) = 0 THEN <<>>
    ELSE IF Len(parts) = 1 THEN parts[1]
    ELSE parts[1] \o sep \o join(sep, Tail(parts))

\* The constructor's assert for a Move built from coordinates: a non-empty tuple.
MoveOk(coordinate_move) == Len(coordinate_move) > 0

Move(coordinate_move) ==
    [coordinate_move |-> coordinate_move,
     str_move |-> join(<<"-">>, [i \in 1..Len(coordinate_move) |-> str(coordinate_move[i])])]

\* str.split("-"): the pieces between the separators, empty pieces included.
RECURSIVE split(_)
split(s) ==
    IF Len(s) = 0 THEN << <<>> >>
    ELSE IF Head(s) = "-" THEN << <<>> >> \o split(Tail(s))
    ELSE LET rest == split(Tail(s))
         IN  << <<Head(s)>> \o rest[1] >> \o Tail(rest)

DigitValue(ch) == CHOOSE d \in 0..9 : Digits[d + 1] = ch

\* int() accepts a piece made of decimal digits, at least one; the pieces of
\* split("-") hold no sign, and an empty one raises ValueError.
IntOk(s) ==
    /\ Len(s) > 0
    /\ \A i \in 1..Len(s) : \E d \in 1..10 : Digits[d] = s[i]

\* A faulty int: it reads the last digit only.
IntLastDigit(s) == DigitValue(s[Len(s)])

RECURSIVE int(_)
int(s) ==
    IF Len(s) = 1 THEN DigitValue(s[1])
    ELSE 10 * int(SubSeq(s, 1, Len(s) - 1)) + DigitValue(s[Len(s)])

\* Move.__init__ with both parameters; None, the empty tuple and the empty
\* string are <<>>, the values Python takes as false.
MoveInit(coordinate_move, str_move) ==
    IF ~(Len(coordinate_move) > 0 \/ Len(str_move) > 0)
    THEN [exc |-> "AssertionError", val |-> None]
    ELSE IF Len(coordinate_move) > 0
    THEN [exc |-> NoExc, val |-> Move(coordinate_move)]
    ELSE LET pieces == split(str_move)
         IN  IF \E i \in 1..Len(pieces) : ~IntOk(pieces[i])
             THEN [exc |-> "ValueError", val |-> None]
             ELSE [exc |-> NoExc,
                   val |-> [coordinate_move |-> [i \in 1..Len(pieces) |-> int(pieces[i])],
                            str_move |-> str_move]]

(***************************************************************************)
(* Board.find_directions: itertools.product([1, 0, -1], repeat=N) in its   *)
(* order, keeping a direction when the scan of its components meets a      *)
(* positive one before a negative one.                                     *)
(***************************************************************************)
RECURSIVE product(_, _)
product(values, repeat) ==
    IF repeat = 0 THEN << <<>> >>
    ELSE LET rest == product(values, repeat - 1)
             n == Len(values)
         IN  [k \in 1..(Len(rest) * n) |->
                 Append(rest[((k - 1) \div n) + 1], values[((k - 1) % n) + 1])]

RECURSIVE KeepDirectionFrom(_, _)
KeepDirectionFrom(direction, i) ==
    IF i > Len(direction) THEN FALSE
    ELSE IF direction[i] > 0 THEN TRUE
    ELSE IF direction[i] < 0 THEN FALSE
    ELSE KeepDirectionFrom(direction, i + 1)

\* A faulty filter: it keeps the directions with no negative component.
KeepNonNegative(direction) ==
    /\ \A i \in 1..Len(direction) : direction[i] >= 0
    /\ \E i \in 1..Len(direction) : direction[i] > 0

KeepDirection(direction) == KeepDirectionFrom(direction, 1)

find_directions(dims) ==
    SelectSeq(product(<<1, 0, -1>>, Len(dims)), KeepDirection)

(***************************************************************************)
(* The queries of Board, on the current state.                             *)
(***************************************************************************)
\* Board.get_mark_at_position
get_mark_at_position(position) ==
    IF IndexOk(dimensions, position)
    THEN [exc |-> NoExc, val |-> board[NpIndex(dimensions, position)]]
    ELSE [exc |-> "IndexError", val |-> None]

\* Board.is_empty
is_empty(position) ==
    LET m == get_mark_at_position(position)
    IN  IF m.exc # NoExc THEN m ELSE [exc |-> NoExc, val |-> (m.val = 0)]

\* A faulty out_of_bounds: it omits (pos < 0).any().
OutOfBoundsNoNegativeCheck(pos) ==
    \E i \in 1..Len(pos) : pos[i] >= dimensions[i]

\* Board.out_of_bounds
out_of_bounds(pos) ==
    (\E i \in 1..Len(pos) : pos[i] < 0) \/ (\E i \in 1..Len(pos) : pos[i] >= dimensions[i])

\* Board.in_bounds
in_bounds(pos) == ~out_of_bounds(pos)

\* position + np.multiply(direction, in_a_row)
Step(position, direction, in_a_row) ==
    [i \in 1..Len(position) |-> position[i] + direction[i] * in_a_row]

\* A faulty has_won: it walks range(1, x_in_a_row + 1).
HasWonFromOne(player) ==
    \E position \in {c \in DOMAIN board : board[c] = player} :
        \E k \in 1..Len(directions) :
            \A in_a_row \in 1..x_in_a_row :
                LET pos == Step(position, directions[k], in_a_row)
                IN  ~(out_of_bounds(pos) \/ board[NpIndex(dimensions, pos)] # player)

\* Board.has_won
has_won(player) ==
    \E position \in {c \in DOMAIN board : board[c] = player} :
        \E k \in 1..Len(directions) :
            \A in_a_row \in 1..(x_in_a_row - 1) :
                LET pos == Step(position, directions[k], in_a_row)
                IN  ~(out_of_bounds(pos) \/ board[NpIndex(dimensions, pos)] # player)

\* self.board.all()
BoardAll == \A c \in DOMAIN board : board[c] # 0

\* A faulty result: it tests the full board before the winners.
ResultFullBoardFirst ==
    LET x_won == has_won(X)
        o_won == has_won(O)
    IN  IF x_won /\ o_won THEN [exc |-> "Exception", val |-> None]
        ELSE IF BoardAll THEN [exc |-> NoExc, val |-> Some(0)]
        ELSE IF x_won THEN [exc |-> NoExc, val |-> Some(X)]
        ELSE IF o_won THEN [exc |-> NoExc, val |-> Some(O)]
        ELSE [exc |-> NoExc, val |-> None]

\* A faulty result: it omits the test of the full board.
ResultNoDraw ==
    LET x_won == has_won(X)
        o_won == has_won(O)
    IN  IF x_won /\ o_won THEN [exc |-> "Exception", val |-> None]
        ELSE IF x_won THEN [exc |-> NoExc, val |-> Some(X)]
        ELSE IF o_won THEN [exc |-> NoExc, val |-> Some(O)]
        ELSE [exc |-> NoExc, val |-> None]

\* Board.result
result ==
    LET x_won == has_won(X)
        o_won == has_won(O)
    IN  IF x_won /\ o_won THEN [exc |-> "Exception", val |-> None]
        ELSE IF x_won THEN [exc |-> NoExc, val |-> Some(X)]
        ELSE IF o_won THEN [exc |-> NoExc, val |-> Some(O)]
        ELSE IF BoardAll THEN [exc |-> NoExc, val |-> Some(0)]
        ELSE [exc |-> NoExc, val |-> None]

\* Board.possible_moves: np.argwhere(self.board == 0), the coordinates of the
\* zero cells in row-major order (RowMajor is argwhere's order of the cells).
RECURSIVE RowMajor(_, _)
RowMajor(dims, n) ==
    IF n = 0 THEN << <<>> >>
    ELSE LET rest == RowMajor(dims, n - 1)
             side == dims[n]
         IN  [k \in 1..(Len(rest) * side) |->
                 Append(rest[((k - 1) \div side) + 1], (k - 1) % side)]

IsZero(c) == board[c] = 0

\* A faulty possible_moves: np.argwhere(self.board != 0).
PossibleMovesOccupied ==
    LET NonZero(c) == board[c] # 0
    IN  SelectSeq(RowMajor(dimensions, Len(dimensions)), NonZero)

possible_moves == SelectSeq(RowMajor(dimensions, Len(dimensions)), IsZero)

(***************************************************************************)
(* The mutators of Board: each gives the fields as the call leaves them.   *)
(***************************************************************************)
\* A faulty set_mark: it appends every Move to x.
SetMarkAlwaysX(coordinates, player) ==
    [board |-> [board EXCEPT ![NpIndex(dimensions, coordinates)] = player],
     x |-> Append(x, Move(coordinates)),
     o |-> o]

\* Board.set_mark
set_mark(coordinates, player) ==
    [board |-> [board EXCEPT ![NpIndex(dimensions, coordinates)] = player],
     x |-> IF player = X THEN Append(x, Move(coordinates)) ELSE x,
     o |-> IF player = X THEN o ELSE Append(o, Move(coordinates))]

\* A call of push that raises exc: nothing was assigned before the raise.
Raised(exc) ==
    [exc |-> exc, board |-> board, x |-> x, o |-> o, turn |-> turn,
     moves |-> moves, move_count |-> move_count]

\* A faulty push: it omits the test of is_empty.
PushOverwrites(coordinates) ==
    LET e == is_empty(coordinates)
    IN  IF e.exc # NoExc THEN Raised(e.exc)
        ELSE LET marked == set_mark(coordinates, turn)
             IN  [exc |-> NoExc, board |-> marked.board, x |-> marked.x, o |-> marked.o,
                  turn |-> IF turn = O THEN X ELSE O,
                  moves |-> Append(moves, Move(coordinates)),
                  move_count |-> move_count + 1]

\* A faulty push: it does not flip turn.
PushKeepsTurn(coordinates) ==
    LET e == is_empty(coordinates)
    IN  IF e.exc # NoExc THEN Raised(e.exc)
        ELSE IF ~e.val THEN Raised("ValueError")
        ELSE LET marked == set_mark(coordinates, turn)
             IN  [exc |-> NoExc, board |-> marked.board, x |-> marked.x, o |-> marked.o,
                  turn |-> turn,
                  moves |-> Append(moves, Move(coordinates)),
                  move_count |-> move_count + 1]

\* Board.push
push(coordinates) ==
    LET e == is_empty(coordinates)
    IN  IF e.exc # NoExc THEN Raised(e.exc)
        ELSE IF ~e.val THEN Raised("ValueError")
        ELSE IF ~MoveOk(coordinates) THEN Raised("AssertionError")
        ELSE LET marked == set_mark(coordinates, turn)
             IN  [exc |-> NoExc, board |-> marked.board, x |-> marked.x, o |-> marked.o,
                  turn |-> IF turn = O THEN X ELSE O,
                  moves |-> Append(moves, Move(coordinates)),
                  move_count |-> move_count + 1]

(***************************************************************************)
(* Board.__init__ and the calls a caller makes on the engine.              *)
(***************************************************************************)
\* Board.__init__: a fresh engine.
New(dims, run) ==
    /\ dimensions = dims
    /\ x_in_a_row = run
    /\ board = create_board(dims)
    /\ directions = find_directions(dims)
    /\ move_count = 0
    /\ moves = <<>>
    /\ x = <<>>
    /\ o = <<>>
    /\ turn = X
    /\ ret = [op |-> "__init__", exc |-> NoExc, val |-> None]

Init == Alone /\ \E dims \in GameShapes, run \in RunLengths : New(dims, run)

\* An engine holding any marks: a board filled by set_mark, then copied
\* (copy keeps dimensions, x_in_a_row, turn and the cells, and starts the
\* histories and move_count afresh).
InitAny ==
    \E dims \in BoardShapes, run \in RunLengths :
        /\ Alone
        /\ dimensions = dims
        /\ x_in_a_row = run
        /\ board \in [Cells(dims) -> {EMPTY, X, O}]
        /\ directions = find_directions(dims)
        /\ move_count = 0
        /\ moves = <<>>
        /\ x = <<>>
        /\ o = <<>>
        /\ turn = X
        /\ ret = [op |-> "copy", exc |-> NoExc, val |-> None]

Push(coordinates) ==
    \E r \in {push(coordinates)} :
        /\ board' = r.board
        /\ x' = r.x
        /\ o' = r.o
        /\ turn' = r.turn
        /\ moves' = r.moves
        /\ move_count' = r.move_count
        /\ ret' = [op |-> "push", exc |-> r.exc, val |-> None]
        /\ UNCHANGED <<dimensions, x_in_a_row, directions>>

HasWon(player) ==
    /\ ret' = [op |-> "has_won", player |-> player, exc |-> NoExc, val |-> has_won(player)]
    /\ UNCHANGED engine

Result ==
    /\ ret' = [op |-> "result"] @@ result
    /\ UNCHANGED engine

Next ==
    \/ \E coordinates \in ArgCoords(dimensions) : Push(coordinates) /\ UNCHANGED outside
    \/ \E player \in {X, O} : HasWon(player) /\ UNCHANGED outside
    \/ Result /\ UNCHANGED outside

Spec == Init /\ [][Next]_vars

NextAny ==
    \/ \E player \in {X, O} : HasWon(player) /\ UNCHANGED outside
    \/ Result /\ UNCHANGED outside

SpecAny == InitAny /\ [][NextAny]_vars

\* np.zeros(self.dimensions) raises ValueError for a negative size, and for
\* nothing else; dimensions and x_in_a_row are assigned before it is called,
\* and the caller gets no instance.
Rejected(dims, run) ==
    /\ dimensions = dims
    /\ x_in_a_row = run
    /\ board = None
    /\ directions = None
    /\ move_count = None
    /\ moves = None
    /\ x = None
    /\ o = None
    /\ turn = None
    /\ ret = [op |-> "__init__", exc |-> "ValueError", val |-> None]

\* Board(dims, run) for any integers.
NewBoard(dims, run) ==
    IF \E i \in 1..Len(dims) : dims[i] < 0 THEN Rejected(dims, run) ELSE New(dims, run)

InitNew == Alone /\ \E dims \in NewShapes, run \in NewRunLengths : NewBoard(dims, run)

\* The constructor returned an instance.
Constructed == ~(ret.op = "__init__" /\ ret.exc # NoExc)

\* The calls of Next on the instance, when there is one.
NextNew ==
    \/ Constructed /\ \E coordinates \in ArgCoords(dimensions) :
                          Push(coordinates) /\ UNCHANGED outside
    \/ Constructed /\ \E player \in {X, O} : HasWon(player) /\ UNCHANGED outside
    \/ Constructed /\ Result /\ UNCHANGED outside

SpecNew == InitNew /\ [][NextNew]_vars

\* The placement make_mark makes for a square: the cell holds neither mark
\* and neither player has won, which on such a cell is result() being None.
Place(coordinates) ==
    /\ get_mark_at_position(coordinates).val \notin {1, 2}
    /\ ~has_won(X)
    /\ ~has_won(O)
    /\ Push(coordinates)

KeepPlacing ==
    \E coordinates \in Cells(dimensions) : Place(coordinates) /\ UNCHANGED outside

\* The calls of a caller that pushes coordinates of cells only.
NextInside ==
    \/ \E coordinates \in Cells(dimensions) : Push(coordinates) /\ UNCHANGED outside
    \/ \E player \in {X, O} : HasWon(player) /\ UNCHANGED outside
    \/ Result /\ UNCHANGED outside

\* Such calls in any order, accepted and rejected pushes with or without a
\* winner on the board, under a driver that does not stop placing while
\* result() is None.
SpecFair == Init /\ [][NextInside]_vars /\ WF_vars(KeepPlacing)

(***************************************************************************)
(* Board.copy.  A Board beside the one in use is a record of its fields;   *)
(* own_array tells whether its board field is an array object of its own   *)
(* or the very array of the Board in use.                                  *)
(***************************************************************************)
\* A faulty copy: board.board = self.board, the same array object.
CopySharesArray ==
    [dimensions |-> dimensions, x_in_a_row |-> x_in_a_row,
     board |-> board, own_array |-> FALSE,
     directions |-> find_directions(dimensions),
     move_count |-> 0, moves |-> <<>>, x |-> <<>>, o |-> <<>>,
     turn |-> turn]

\* Board.copy: Board(self.dimensions, self.x_in_a_row), then turn and
\* self.board.copy(), a new array with the same cells.
copy ==
    [dimensions |-> dimensions, x_in_a_row |-> x_in_a_row,
     board |-> board, own_array |-> TRUE,
     directions |-> find_directions(dimensions),
     move_count |-> 0, moves |-> <<>>, x |-> <<>>, o |-> <<>>,
     turn |-> turn]

\* The Board in use, as the other of made.
Self(made) ==
    [dimensions |-> dimensions, x_in_a_row |-> x_in_a_row,
     board |-> board, own_array |-> made.own_array,
     directions |-> directions,
     move_count |-> move_count, moves |-> moves, x |-> x, o |-> o,
     turn |-> turn]

\* copy() whose caller keeps calling the original.
CopyAside ==
    /\ other = None
    /\ other' = Some(copy)
    /\ ret' = [op |-> "copy", exc |-> NoExc, val |-> None]
    /\ UNCHANGED <<engine, board_squares, ok, handling>>

\* copy() whose caller goes on with the copy.
CopyTurnTo ==
    /\ other = None
    /\ \E made \in {copy} :
          /\ other' = Some(Self(made))
          /\ dimensions' = made.dimensions
          /\ x_in_a_row' = made.x_in_a_row
          /\ board' = made.board
          /\ directions' = made.directions
          /\ move_count' = made.move_count
          /\ moves' = made.moves
          /\ x' = made.x
          /\ o' = made.o
          /\ turn' = made.turn
    /\ ret' = [op |-> "copy", exc |-> NoExc, val |-> None]
    /\ UNCHANGED <<board_squares, ok, handling>>

\* push on the Board in use; a write to its array shows in the other Board
\* when that one holds the same array.
PushBeside(coordinates) ==
    /\ Push(coordinates)
    /\ other' = IF other # None /\ ~other[1].own_array
                THEN Some([other[1] EXCEPT !.board = board'])
                ELSE other
    /\ UNCHANGED <<board_squares, ok, handling>>

NextCopy ==
    \/ \E coordinates \in Cells(dimensions) : PushBeside(coordinates)
    \/ CopyAside
    \/ CopyTurnTo

SpecCopy == Init /\ [][NextCopy]_vars

(***************************************************************************)
(* The driver: the squares drawn for the cells of a Board((lines, cols),   *)
(* chain), and the body of the event loop for one event, once get_size has *)
(* built the board (update is False).  The window is WindowSide pixels     *)
(* wide and high, and an event's pos is a pair of pixels.                  *)
(***************************************************************************)
WindowSide == 712

\* square.__init__: hover, X and O start False; x, y, width and height follow
\* from position and board_size.
square(position, board_size) ==
    [position |-> position, board_size |-> board_size,
     hover |-> FALSE, X |-> FALSE, O |-> FALSE]

\* make_board: the squares in the order the loops over board_squares meet them.
make_board(lines, cols) ==
    [k \in 1..(lines * cols) |->
        square(<<(k - 1) % cols, (k - 1) \div cols>>, <<cols, lines>>)]

\* The test of manage_hovering, self.x <= x <= self.x + self.width and the
\* same for y, with width = 712 / board_size[0] and self.x = position[0] *
\* width: both sides multiplied by board_size[i].  For the sizes of the
\* model the floating-point values compare with a pixel as the exact ones do.
Hovered(sqare, pos) ==
    \A i \in 1..2 :
        /\ pos[i] * sqare.board_size[i] >= sqare.position[i] * WindowSide
        /\ pos[i] * sqare.board_size[i] <= (sqare.position[i] + 1) * WindowSide

MouseEvents == {"MOUSEMOTION", "MOUSEBUTTONDOWN", "MOUSEBUTTONUP"}

\* square.manage_hovering
manage_hovering(sqare, event) ==
    IF event.type \in MouseEvents
    THEN [sqare EXCEPT !.hover = Hovered(sqare, event.pos)]
    ELSE sqare

\* square.manage_set_mark
manage_set_mark(sqare) ==
    LET mark == get_mark_at_position(sqare.position).val
    IN  [sqare EXCEPT !.O = @ \/ mark = 2, !.X = @ \/ mark = 1]

\* square.update, but for the drawing.
update(sqare, event) == manage_hovering(manage_set_mark(sqare), event)

\* A faulty test in make_mark: it looks at the square only.
MarkGuardNoWinTest(sqare) ==
    /\ sqare.hover
    /\ get_mark_at_position(sqare.position).val \notin {1, 2}

\* The test make_mark makes for a square.
MarkGuard(sqare) ==
    /\ sqare.hover
    /\ get_mark_at_position(sqare.position).val \notin {1, 2}
    /\ ~has_won(X)
    /\ ~has_won(O)

\* The pixels taken for an axis cut in n: the first pixel, the last one, and
\* for each inner border of two squares the pixel at or just left of it.
Pixels(n) == {(p * WindowSide) \div n : p \in 0..(n - 1)} \cup {WindowSide - 1}

Events ==
    {[type |-> t, pos |-> <<px, py>>] :
        t \in MouseEvents, px \in Pixels(dimensions[1]), py \in Pixels(dimensions[2])}
    \cup {[type |-> "KEYDOWN", pos |-> None]}

\* get_size: Board((lines, cols), chain) and make_board(cols, lines).
InitDriver ==
    /\ \E dims \in {d \in GameShapes : Len(d) = 2}, chain \in RunLengths :
          /\ New(dims, chain)
          /\ board_squares = make_board(dims[2], dims[1])
    /\ ok = FALSE
    /\ handling = None
    /\ other = None

\* What the loop does for an event after make_mark: every square's update,
\* then the tests of has_won(X), has_won(O) and result() == 0 that set ok.
AfterMakeMark(event) ==
    /\ board_squares' = [k \in 1..Len(board_squares) |-> update(board_squares[k], event)]
    /\ IF has_won(X)
       THEN /\ ok' = TRUE
            /\ ret' = [op |-> "has_won", player |-> X, exc |-> NoExc, val |-> TRUE]
       ELSE IF has_won(O)
       THEN /\ ok' = TRUE
            /\ ret' = [op |-> "has_won", player |-> O, exc |-> NoExc, val |-> TRUE]
       ELSE /\ ok' = (ok \/ result = [exc |-> NoExc, val |-> Some(0)])
            /\ ret' = [op |-> "result"] @@ result
    /\ handling' = None
    /\ UNCHANGED <<engine, other>>

\* The loop's body for an event other than MOUSEBUTTONDOWN: make_mark does
\* nothing.
OtherEvent(event) ==
    /\ handling = None
    /\ event.type # "MOUSEBUTTONDOWN"
    /\ AfterMakeMark(event)

\* A MOUSEBUTTONDOWN is taken from the queue and make_mark starts its loop
\* over the squares; count is move_count as the event finds it.
ButtonDown(event) ==
    /\ handling = None
    /\ event.type = "MOUSEBUTTONDOWN"
    /\ handling' = Some([event |-> event, next |-> 1, count |-> move_count])
    /\ UNCHANGED <<engine, ret, other, board_squares, ok>>

\* make_mark's loop looks at its next square.
MakeMarkSquare ==
    /\ handling # None
    /\ handling[1].next <= Len(board_squares)
    /\ LET sqare == board_squares[handling[1].next]
       IN  IF MarkGuard(sqare)
           THEN Push(sqare.position)
           ELSE UNCHANGED <<engine, ret>>
    /\ handling' = Some([handling[1] EXCEPT !.next = @ + 1])
    /\ UNCHANGED <<other, board_squares, ok>>

\* make_mark has returned: the rest of the loop's body for the event.
ButtonDownDone ==
    /\ handling # None
    /\ handling[1].next > Len(board_squares)
    /\ AfterMakeMark(handling[1].event)

NextDriver ==
    \/ \E event \in Events : OtherEvent(event)
    \/ \E event \in Events : ButtonDown(event)
    \/ MakeMarkSquare
    \/ ButtonDownDone

SpecDriver == InitDriver /\ [][NextDriver]_vars

(***************************************************************************)
(* Move objects on their own: no Board is involved.                        *)
(***************************************************************************)
NoBoard ==
    /\ dimensions = <<>>
    /\ x_in_a_row = 0
    /\ board = <<>>
    /\ directions = <<>>
    /\ move_count = 0
    /\ moves = <<>>
    /\ x = <<>>
    /\ o = <<>>
    /\ turn = X

\* Move(c) for a tuple c of up to MaxComponents components.
InitMove ==
    /\ NoBoard
    /\ Alone
    /\ \E c \in CoordinateTuples :
          ret = [op |-> "Move", coordinate_move |-> c, str_move |-> None, of |-> None]
                    @@ MoveInit(c, None)

\* Move(str_move=m.str_move) for the Move m the last call made.
MoveFromText ==
    /\ ret.exc = NoExc
    /\ ret' = [op |-> "Move", coordinate_move |-> None, str_move |-> ret.val.str_move,
               of |-> Some(ret.val)] @@ MoveInit(None, ret.val.str_move)
    /\ UNCHANGED engine

\* Move(m.coordinate_move) for the Move m the last call made from a text.
MoveFromCoordinates ==
    /\ ret.exc = NoExc
    /\ ret.coordinate_move = None
    /\ ret' = [op |-> "Move", coordinate_move |-> ret.val.coordinate_move, str_move |-> None,
               of |-> Some(ret.val)] @@ MoveInit(ret.val.coordinate_move, None)
    /\ UNCHANGED engine

NextMove ==
    \/ MoveFromText /\ UNCHANGED outside
    \/ MoveFromCoordinates /\ UNCHANGED outside

SpecMove == InitMove /\ [][NextMove]_vars

(***************************************************************************)
(* Notions the properties below are stated with.                           *)
(***************************************************************************)
Other(player) == IF player = X THEN O ELSE X

\* The fields a call of push may assign, as they are now.
Fields ==
    [board |-> board, x |-> x, o |-> o, turn |-> turn, moves |-> moves,
     move_count |-> move_count]

FieldsOf(r) ==
    [board |-> r.board, x |-> r.x, o |-> r.o, turn |-> r.turn, moves |-> r.moves,
     move_count |-> r.move_count]

\* after is before with one Move for coord appended.
AppendedOne(before, after, coord) ==
    /\ Len(after) = Len(before) + 1
    /\ SubSeq(after, 1, Len(before)) = before
    /\ after[Len(after)].coordinate_move = coord

\* Every component of coord lies in [0, dimensions[i]).
InsideBoard(coord) ==
    \A i \in 1..Len(dimensions) : 0 <= coord[i] /\ coord[i] < dimensions[i]

Marks(player) == {c \in Cells(dimensions) : board[c] = player}

\* The non-zero directions with components in {-1, 0, 1}: all 3^N - 1 of them.
AllDirections ==
    {d \in [1..Len(dimensions) -> {-1, 0, 1}] : \E i \in 1..Len(dimensions) : d[i] # 0}

\* The x_in_a_row cells c, c + d, ..., c + (x_in_a_row - 1) * d are all inside
\* the board and all hold player's mark.
RunAt(player, c, d) ==
    /\ board[c] = player
    /\ \A k \in 1..(x_in_a_row - 1) :
          LET cell == [i \in 1..Len(c) |-> c[i] + k * d[i]]
          IN  InsideBoard(cell) /\ board[cell] = player

ExistsRun(player) ==
    \E c \in Cells(dimensions) : \E d \in AllDirections : RunAt(player, c, d)

\* result() returned X, O or Draw.
Terminal == result.exc = NoExc /\ result.val # None

(***************************************************************************)
(* C1: in every reachable state, push of an in-bounds coordinate whose     *)
(* cell is EMPTY succeeds; it writes the mover's mark in that cell and in  *)
(* no other, flips turn, adds 1 to move_count, appends one Move for the    *)
(* coordinate to moves and one to the mover's list, and leaves the other   *)
(* player's list as it was.                                                *)
(***************************************************************************)
C1_PushOnEmpty ==
    \A coord \in Cells(dimensions) :
        board[coord] = EMPTY =>
            LET r == push(coord)
            IN  /\ r.exc = NoExc
                /\ r.board[coord] = turn
                /\ \A c \in Cells(dimensions) \ {coord} : r.board[c] = board[c]
                /\ DOMAIN r.board = DOMAIN board
                /\ r.turn = Other(turn)
                /\ r.move_count = move_count + 1
                /\ AppendedOne(moves, r.moves, coord)
                /\ IF turn = X
                   THEN AppendedOne(x, r.x, coord) /\ r.o = o
                   ELSE AppendedOne(o, r.o, coord) /\ r.x = x

\* Both players have placed by accepted pushes, the last call being one, and
\* an EMPTY cell is left.
C1_Witness ==
    /\ ret.op = "push" /\ ret.exc = NoExc
    /\ Len(x) = 1 /\ Len(o) = 1 /\ move_count = 2
    /\ \E c \in Cells(dimensions) : board[c] = EMPTY

(***************************************************************************)
(* C2: in every reachable state, push of a coordinate whose cell holds X   *)
(* or O fails with ValueError and leaves board, turn, move_count, moves    *)
(* and both per-player lists as they were.                                 *)
(***************************************************************************)
C2_PushOnOccupied ==
    \A coord \in ArgCoords(dimensions) :
        (IndexOk(dimensions, coord) /\ board[NpIndex(dimensions, coord)] \in {X, O}) =>
            LET r == push(coord)
            IN  r.exc = "ValueError" /\ FieldsOf(r) = Fields

\* A push was rejected for an occupied cell after placements of both players.
C2_Witness ==
    /\ ret.op = "push" /\ ret.exc = "ValueError"
    /\ move_count >= 2
    /\ Marks(X) # {} /\ Marks(O) # {}

(***************************************************************************)
(* C3: win detection is complete.  Whenever some cell c and some non-zero  *)
(* direction d, among all 3^N - 1 of them, give x_in_a_row cells c, c + d, *)
(* ... inside the board that all hold the player's mark, has_won(player)   *)
(* returns true.                                                           *)
(***************************************************************************)
C3_WinDetectionComplete ==
    ret.op = "has_won" => (ExistsRun(ret.player) => ret.val = TRUE)

\* has_won(X) returned true on a board of three axes whose only run goes
\* along a direction with negative components: X holds (0,1,1) and (1,0,0).
C3_Witness ==
    /\ ret.op = "has_won" /\ ret.player = X /\ ret.val = TRUE
    /\ dimensions = <<2, 2, 2>> /\ x_in_a_row = 2
    /\ Marks(X) = {<<0, 1, 1>>, <<1, 0, 0>>}

(***************************************************************************)
(* C4: win detection is sound.  has_won(player) returns true only if some  *)
(* cell c and non-zero direction d give x_in_a_row cells c, c + d, ...     *)
(* that all lie inside the board, every component in [0, dim), and all     *)
(* hold the player's mark: no run wraps around an edge and no shorter      *)
(* sequence counts.                                                        *)
(***************************************************************************)
C4_WinDetectionSound ==
    ret.op = "has_won" => (ret.val = TRUE => ExistsRun(ret.player))

\* has_won(X) returned false where X holds (0,0) and (1,2) of a 2 x 3 board
\* with runs of 2: the step (1,-1) from (0,0) leaves the board, and index
\* -1 would name column 2.
C4_Witness ==
    /\ ret.op = "has_won" /\ ret.player = X /\ ret.val = FALSE
    /\ dimensions = <<2, 3>> /\ x_in_a_row = 2
    /\ Marks(X) = {<<0, 0>>, <<1, 2>>}

(***************************************************************************)
(* C5: result() decides in this order: it raises when has_won(X) and       *)
(* has_won(O) both hold; else it returns X if has_won(X), O if has_won(O), *)
(* Draw (0) if no cell is EMPTY, and None otherwise.  So it returns None   *)
(* exactly when neither player has won and some cell is EMPTY, and a full  *)
(* board with a winner reports the winner, never Draw.                     *)
(***************************************************************************)
C5_ResultPriority ==
    ret.op = "result" =>
        LET xw == has_won(X)
            ow == has_won(O)
            full == \A c \in Cells(dimensions) : board[c] # EMPTY
        IN  /\ ret.exc \in {NoExc, "Exception"}
            /\ (ret.exc = "Exception") <=> (xw /\ ow)
            /\ (xw /\ ~ow) => ret.val = Some(X)
            /\ (ow /\ ~xw) => ret.val = Some(O)
            /\ (~xw /\ ~ow /\ full) => ret.val = Some(0)
            /\ (ret.exc = NoExc /\ ret.val = None) <=> (~xw /\ ~ow /\ ~full)
            /\ (full /\ ret.exc = NoExc /\ (xw \/ ow)) => ret.val # Some(0)

\* result() returned O on a full board on which O, and not X, has a run.
C5_Witness ==
    /\ ret.op = "result" /\ ret.exc = NoExc /\ ret.val = Some(O)
    /\ \A c \in Cells(dimensions) : board[c] # EMPTY
    /\ ExistsRun(O) /\ ~ExistsRun(X)
    /\ x_in_a_row >= 2

(***************************************************************************)
(* C6: in every state reached from a fresh engine by push calls,           *)
(* has_won(X) and has_won(O) are not both true, and result() does not      *)
(* raise the both-players-won error.  Stated for runs of at least 2 and    *)
(* placements on in-bounds coordinates.                                    *)
(***************************************************************************)
MovesInside == \A k \in 1..Len(moves) : InsideBoard(moves[k].coordinate_move)

C6_NeverBothWon ==
    (x_in_a_row >= 2 /\ MovesInside) =>
        /\ ~(has_won(X) /\ has_won(O))
        /\ ret.op = "result" => ret.exc # "Exception"

(***************************************************************************)
(* C7: once result() is X, O or Draw, every further push fails: no step    *)
(* from a terminal state is an accepted push.  Stated for runs of at least *)
(* 2 and placements on in-bounds coordinates.                              *)
(***************************************************************************)
C7_NoPushAfterTerminal ==
    [][(x_in_a_row >= 2 /\ MovesInside' /\ Terminal /\ ret'.op = "push")
           => ret'.exc # NoExc]_vars

(***************************************************************************)
(* C8: turns alternate starting with X.  turn is X exactly when the number *)
(* of accepted placements is even, the k-th accepted placement wrote X     *)
(* when k is odd and O when k is even, and a rejected push leaves turn and *)
(* move_count as they were.                                                *)
(***************************************************************************)
C8_TurnsAlternate ==
    /\ turn \in {X, O}
    /\ move_count = Len(moves)
    /\ (turn = X) <=> (move_count % 2 = 0)
    /\ \A k \in 1..Len(moves) :
          board[NpIndex(dimensions, moves[k].coordinate_move)] =
              IF k % 2 = 1 THEN X ELSE O
    /\ \A coord \in ArgCoords(dimensions) :
          LET r == push(coord)
          IN  r.exc # NoExc => (r.turn = turn /\ r.move_count = move_count)

\* After three accepted placements a push was rejected, and it is O's turn.
C8_Witness ==
    /\ ret.op = "push" /\ ret.exc = "ValueError"
    /\ move_count = 3 /\ turn = O

(***************************************************************************)
(* C9: a coordinate with some component outside [0, dimensions[i]) is      *)
(* rejected, never wrapped: get_mark_at_position and is_empty raise, and   *)
(* push raises and leaves board, turn, move_count and the move lists as    *)
(* they were.                                                              *)
(***************************************************************************)
C9_OutOfBoundsRejected ==
    \A coord \in ArgCoords(dimensions) :
        ~InsideBoard(coord) =>
            /\ get_mark_at_position(coord).exc # NoExc
            /\ is_empty(coord).exc # NoExc
            /\ LET r == push(coord)
               IN  r.exc # NoExc /\ FieldsOf(r) = Fields

(***************************************************************************)
(* C10: with x_in_a_row = 1, has_won(player) is true exactly when the      *)
(* player holds at least one cell, on boards of one, two and three axes;   *)
(* so on the board the first accepted push leaves, one X and no O,         *)
(* has_won(X) is true, has_won(O) is false and result() is X.              *)
(***************************************************************************)
C10_RunOfOne ==
    x_in_a_row = 1 =>
        /\ ret.op = "has_won" => (ret.val = (Marks(ret.player) # {}))
        /\ (Cardinality(Marks(X)) = 1 /\ Marks(O) = {}) =>
              /\ ret.op = "has_won" => (ret.val = (ret.player = X))
              /\ ret.op = "result" => (ret.exc = NoExc /\ ret.val = Some(X))

\* result() returned X on a board of three axes holding one X and no O.
C10_Witness ==
    /\ x_in_a_row = 1 /\ Len(dimensions) = 3
    /\ Cardinality(Marks(X)) = 1 /\ Marks(O) = {}
    /\ ret.op = "result" /\ ret.exc = NoExc /\ ret.val = Some(X)

(***************************************************************************)
(* C14: the per-player histories are derivable from the chronological one. *)
(* In every state reached by push calls, moves holds one Move per occupied *)
(* cell, the x list is the subsequence of moves at the odd positions, the  *)
(* o list the subsequence at the even positions, and                       *)
(* len(x) + len(o) = len(moves).                                           *)
(***************************************************************************)
OddPositions(s) == [k \in 1..((Len(s) + 1) \div 2) |-> s[2 * k - 1]]

EvenPositions(s) == [k \in 1..(Len(s) \div 2) |-> s[2 * k]]

C14_HistoriesDerivable ==
    /\ x = OddPositions(moves)
    /\ o = EvenPositions(moves)
    /\ Len(x) + Len(o) = Len(moves)
    /\ {NpIndex(dimensions, moves[k].coordinate_move) : k \in 1..Len(moves)} =
           {c \in DOMAIN board : board[c] # EMPTY}

\* Four placements were accepted, two of each player.
C14_Witness ==
    /\ ret.op = "push" /\ ret.exc = NoExc
    /\ Len(moves) = 4 /\ Len(x) = 2 /\ Len(o) = 2

(***************************************************************************)
(* C15: for boards of 1, 2 and 3 axes, whatever the axis sizes and         *)
(* x_in_a_row, find_directions gives exactly (3^N - 1)/2 pairwise distinct *)
(* vectors with components in {-1, 0, 1}; the zero vector is absent, no    *)
(* two are negatives of each other, a vector is present exactly when its   *)
(* first non-zero component is positive, and of every non-zero vector and  *)
(* its negation exactly one is present.                                    *)
(***************************************************************************)
Negated(v) == [i \in 1..Len(v) |-> -v[i]]

FirstNonZeroPositive(v) ==
    \E i \in 1..Len(v) : v[i] > 0 /\ \A j \in 1..(i - 1) : v[j] = 0

C15_Directions ==
    LET N == Len(dimensions)
        returned == {directions[k] : k \in 1..Len(directions)}
        vectors == [1..N -> {-1, 0, 1}]
    IN  /\ N \in 1..3
        /\ 2 * Len(directions) = 3^N - 1
        /\ Cardinality(returned) = Len(directions)
        /\ returned \subseteq vectors
        /\ [i \in 1..N |-> 0] \notin returned
        /\ \A v \in returned : Negated(v) \notin returned
        /\ \A v \in vectors : (v \in returned) <=> FirstNonZeroPositive(v)
        /\ \A v \in AllDirections : (v \in returned) # (Negated(v) \in returned)

\* A board of three axes has 13 directions, (0,0,1) and (1,-1,-1) among them.
C15_Witness ==
    /\ Len(dimensions) = 3 /\ Len(directions) = 13
    /\ \E k \in 1..13 : directions[k] = <<0, 0, 1>>
    /\ \E k \in 1..13 : directions[k] = <<1, -1, -1>>

(***************************************************************************)
(* C18: marks are write-once and wins are permanent.  No step, an accepted *)
(* or a rejected push included, changes a cell that holds X or O, and no   *)
(* step makes has_won(p) false once it is true.                            *)
(***************************************************************************)
C18_WriteOnce ==
    [][/\ \A c \in DOMAIN board : board[c] \in {X, O} => board'[c] = board[c]
       /\ \A p \in {X, O} : has_won(p) => has_won(p)']_vars

\* X completed a run of two with its second mark, and O placed after that.
C18_Witness ==
    /\ ret.op = "push" /\ ret.exc = NoExc
    /\ x_in_a_row = 2 /\ MovesInside
    /\ move_count = 4 /\ has_won(X)

(***************************************************************************)
(* C19: the counters agree with the board.  In every state reached from a  *)
(* fresh engine by push calls, move_count = len(moves) = the number of     *)
(* non-EMPTY cells, possible_moves() gives product(dimensions) -           *)
(* move_count coordinates, each of an EMPTY cell and no cell twice, and no *)
(* two entries of moves denote the same cell.                              *)
(***************************************************************************)
C19_CountersAgree ==
    LET occupied == {c \in DOMAIN board : board[c] # EMPTY}
        free == possible_moves
    IN  /\ move_count = Len(moves)
        /\ move_count = Cardinality(occupied)
        /\ Len(free) = ProductFrom(dimensions, 1) - move_count
        /\ {free[k] : k \in 1..Len(free)} = DOMAIN board \ occupied
        /\ \A j, k \in 1..Len(moves) :
              j # k => /\ moves[j].coordinate_move # moves[k].coordinate_move
                       /\ NpIndex(dimensions, moves[j].coordinate_move) #
                              NpIndex(dimensions, moves[k].coordinate_move)

\* Three in-bounds placements on a board of four cells, then a rejected push.
C19_Witness ==
    /\ ret.op = "push" /\ ret.exc = "ValueError"
    /\ MovesInside /\ move_count = 3
    /\ Len(possible_moves) = 1 /\ ProductFrom(dimensions, 1) = 4

(***************************************************************************)
(* C20: every game ends.  At most product(dimensions) pushes are ever      *)
(* accepted; once that many are accepted result() is not None; and when    *)
(* the driver keeps placing on some EMPTY cell as long as result() is      *)
(* None, a state where result() is X, O or Draw is eventually reached.     *)
(***************************************************************************)
InProgress == result.exc = NoExc /\ result.val = None

C20_GameEnds ==
    /\ [](move_count <= ProductFrom(dimensions, 1))
    /\ [](move_count = ProductFrom(dimensions, 1) => ~InProgress)
    /\ <>Terminal

\* A board of four cells was filled without a run of three: result() is Draw.
C20_Witness ==
    /\ move_count = 4 /\ ProductFrom(dimensions, 1) = 4
    /\ x_in_a_row = 3
    /\ result = [exc |-> NoExc, val |-> Some(0)]

(***************************************************************************)
(* C13: Move round trip.  For a coordinate tuple c of 1 to 3 components,   *)
(* none negative, Move(c) succeeds, and the Move built from its text alone *)
(* has the coordinate tuple c and the same text; the Move built from those *)
(* coordinates has that text again.                                        *)
(***************************************************************************)
ValidCoordinates(c) ==
    /\ Len(c) \in 1..3
    /\ \A i \in 1..Len(c) : c[i] >= 0

C13_MoveRoundTrip ==
    /\ (ret.of = None /\ ValidCoordinates(ret.coordinate_move)) =>
          ret.exc = NoExc /\ ret.val.coordinate_move = ret.coordinate_move
    /\ (ret.of # None /\ ValidCoordinates(ret.of[1].coordinate_move)) =>
          /\ ret.exc = NoExc
          /\ ret.val.coordinate_move = ret.of[1].coordinate_move
          /\ ret.val.str_move = ret.of[1].str_move

\* The Move built from the text "10-0-11" has the coordinates (10, 0, 11).
C13_Witness ==
    /\ ret.of # None /\ ret.coordinate_move = None
    /\ ret.str_move = <<"1", "0", "-", "0", "-", "1", "1">>
    /\ ret.exc = NoExc
    /\ ret.val.coordinate_move = <<10, 0, 11>>

(***************************************************************************)
(* C12: construction rejects invalid parameters.  Board(dimensions,        *)
(* x_in_a_row) fails whenever some dimension is <= 0 or x_in_a_row < 1, so *)
(* every instance has axis sizes of at least 1 and a run length of at      *)
(* least 1.                                                                *)
(***************************************************************************)
C12_ConstructionRejectsInvalid ==
    Constructed =>
        /\ \A i \in 1..Len(dimensions) : dimensions[i] >= 1
        /\ x_in_a_row >= 1

(***************************************************************************)
(* C11: copy() yields an independent engine.  The step that makes the copy *)
(* leaves the original as it was and gives the copy the original's         *)
(* dimensions, x_in_a_row, turn and cells; every later step, the pushes on *)
(* either of the two, leaves the cells, turn, move_count and move lists of *)
(* the engine it is not called on as they were.                            *)
(***************************************************************************)
Observed(b) == <<b.board, b.turn, b.move_count, b.moves, b.x, b.o>>

C11_CopyIndependent ==
    [][/\ (other = None /\ other' # None) =>
             /\ <<dimensions', x_in_a_row', turn', board'>> =
                    <<dimensions, x_in_a_row, turn, board>>
             /\ <<other'[1].dimensions, other'[1].x_in_a_row, other'[1].turn,
                  other'[1].board>> = <<dimensions, x_in_a_row, turn, board>>
             /\ DOMAIN other'[1].board = Cells(dimensions)
       /\ (other # None /\ other' # None) => Observed(other'[1]) = Observed(other[1])
      ]_vars

\* The original took two placements and was copied; one push on the copy was
\* accepted since, and the original still has its two moves.
C11_Witness ==
    /\ other # None
    /\ ret.op = "push" /\ ret.exc = NoExc
    /\ move_count = 1 /\ moves # <<>>
    /\ other[1].move_count = 2
    /\ Cardinality({c \in DOMAIN board : board[c] # EMPTY}) = 3
    /\ Cardinality({c \in DOMAIN board : other[1].board[c] # EMPTY}) = 2

(***************************************************************************)
(* C16: under the driver's click handling, for every sequence of events on *)
(* a board with x_in_a_row >= 1, a step places a mark only while neither   *)
(* player has won and only on a cell that is EMPTY; has_won(X) and         *)
(* has_won(O) are never both true; and the call of result() in the event   *)
(* loop never raises.                                                      *)
(***************************************************************************)
C16_DriverSafe ==
    /\ [][move_count' # move_count =>
             /\ ~has_won(X) /\ ~has_won(O)
             /\ move_count' = move_count + 1
             /\ \A c \in DOMAIN board : board'[c] # board[c] => board[c] = EMPTY]_vars
    /\ [](~(has_won(X) /\ has_won(O)))
    /\ [](ret.op = "result" => ret.exc = NoExc)

\* X has won; make_mark has gone through the squares for a click without
\* placing, though a hovered square's cell is EMPTY.
C16_Witness ==
    /\ handling # None
    /\ handling[1].next > Len(board_squares)
    /\ move_count = handling[1].count
    /\ has_won(X) /\ x_in_a_row >= 2
    /\ \E k \in 1..Len(board_squares) :
          board_squares[k].hover /\ board[board_squares[k].position] = EMPTY

(***************************************************************************)
(* C17: one click places at most one mark.  While a MOUSEBUTTONDOWN is     *)
(* handled, make_mark has at most one push accepted, wherever the pointer  *)
(* is, the border shared by two or four squares included.  Stated for a    *)
(* click at the pixel the squares' hover flags were last computed for.     *)
(***************************************************************************)
HoverAtClick ==
    \A k \in 1..Len(board_squares) :
        board_squares[k].hover = Hovered(board_squares[k], handling[1].event.pos)

C17_OneMarkPerClick ==
    (handling # None /\ HoverAtClick) => move_count - handling[1].count <= 1

=============================================================================
